---- MODULE Spec2Model ----
(***************************************************************************)
(* TutorAI (Hinglish study buddy): the reducer-driven conversation state   *)
(* of src/App.tsx, the remote/offline service of                           *)
(* src/services/geminiService.ts and the audio player of audioUtils        *)
(* (src/unnamed/part_005).                                                 *)
(*                                                                         *)
(* Modelling decisions                                                     *)
(*  - Text is a TLA+ string; Len, SubSeq and \o act on it as JavaScript's  *)
(*    length, slice/substring and + do.  A surrogate pair (an emoji) is    *)
(*    written as two ASCII characters "~~", so lengths are the UTF-16      *)
(*    lengths the code sees, and a backtick as "^" (the parser admits no   *)
(*    backtick in a string).  The long canned literals of getMockResponse  *)
(*    are abbreviated in their body; their header words and their topic    *)
(*    tag are kept verbatim.                                               *)
(*  - Date.now() is the variable now.  It advances by Tick between steps;  *)
(*    one synchronous segment of a handler reads one value of it.          *)
(*  - A handler is cut at its awaits.  Each synchronous segment is one     *)
(*    action; the dispatches of the segment are folded through appReducer  *)
(*    in their source order.  React re-renders between segments, so a      *)
(*    handler invoked by a UI event closes over the state of that moment   *)
(*    (the fields st, read after an await, are kept in the in-flight       *)
(*    record).                                                             *)
(*  - UI events are guarded by the render conditions of App.tsx (which     *)
(*    view shows which control).                                           *)
(***************************************************************************)
EXTENDS Integers, Sequences, FiniteSets, TLC

VARIABLES
    state,        \* AppState held by useReducer (App.tsx:133)
    now,          \* Date.now()
    apiKey,       \* process.env.API_KEY is set
    chatSession,  \* geminiService.ts:26, NULL is null, else the handle's number
    chats,        \* number of chats created so far (handles are 1..chats)
    inflight,     \* handlers suspended at an await
    steps,        \* number of steps taken so far
    lastStep,     \* what the last step did (its dispatches, its remote call)
    localStorage, \* the values under 'tutorAiProfile' and 'tutorAiHistory'
    crashed,      \* an effect threw: React has unmounted the app
    audioContext, \* part_005:34  "null" | "suspended" | "running"
    currentSource,\* part_005:35  NULL is null, else the source's number
    sources,      \* source number -> "started" | "stopped" | "ended"
    plays,        \* playAudioStream calls suspended at an await
    calls,        \* number of playAudioStream calls so far
    call,         \* a call of a service function on its own: input and result
    topics        \* part_001, part_002: currentTopic and the profile's topic lists

vars == <<state, now, apiKey, chatSession, chats, inflight, steps, lastStep,
          localStorage, crashed,
          audioContext, currentSource, sources, plays, calls, call, topics>>

appVars == <<state, now, apiKey, chatSession, chats, inflight, steps, lastStep,
             localStorage, crashed>>
audioVars == <<audioContext, currentSource, sources, plays, calls>>

----------------------------------------------------------------------------
(* Bounds of the model *)

MaxSteps == 5      \* steps (UI events, settled calls, clock ticks) in one run
MaxStreakSteps == 8 \* steps in one run that follows the streak
MaxPlays == 3      \* playAudioStream calls in one run
TicksPerDay == 2   \* clock values per calendar day

NULL == -1

----------------------------------------------------------------------------
(* Strings *)

Min(S) == CHOOSE x \in S : \A y \in S : x <= y
Max(S) == CHOOSE x \in S : \A y \in S : x >= y

\* String.prototype.indexOf(sub, from), 1-based; 0 when absent
IndexFrom(s, sub, from) ==
    LET hits == {i \in from..(Len(s) - Len(sub) + 1) :
                    SubSeq(s, i, i + Len(sub) - 1) = sub}
    IN  IF hits = {} THEN 0 ELSE Min(hits)

Includes(s, sub) == IndexFrom(s, sub, 1) # 0

LowerChar(c) ==
    CASE c = "A" -> "a" [] c = "B" -> "b" [] c = "C" -> "c" [] c = "D" -> "d"
      [] c = "E" -> "e" [] c = "F" -> "f" [] c = "G" -> "g" [] c = "H" -> "h"
      [] c = "I" -> "i" [] c = "J" -> "j" [] c = "K" -> "k" [] c = "L" -> "l"
      [] c = "M" -> "m" [] c = "N" -> "n" [] c = "O" -> "o" [] c = "P" -> "p"
      [] c = "Q" -> "q" [] c = "R" -> "r" [] c = "S" -> "s" [] c = "T" -> "t"
      [] c = "U" -> "u" [] c = "V" -> "v" [] c = "W" -> "w" [] c = "X" -> "x"
      [] c = "Y" -> "y" [] c = "Z" -> "z" [] OTHER -> c

UpperChar(c) ==
    CASE c = "a" -> "A" [] c = "b" -> "B" [] c = "c" -> "C" [] c = "d" -> "D"
      [] c = "e" -> "E" [] c = "f" -> "F" [] c = "g" -> "G" [] c = "h" -> "H"
      [] c = "i" -> "I" [] c = "j" -> "J" [] c = "k" -> "K" [] c = "l" -> "L"
      [] c = "m" -> "M" [] c = "n" -> "N" [] c = "o" -> "O" [] c = "p" -> "P"
      [] c = "q" -> "Q" [] c = "r" -> "R" [] c = "s" -> "S" [] c = "t" -> "T"
      [] c = "u" -> "U" [] c = "v" -> "V" [] c = "w" -> "W" [] c = "x" -> "X"
      [] c = "y" -> "Y" [] c = "z" -> "Z" [] OTHER -> c

RECURSIVE ToLowerCase(_)
\* String.prototype.toLowerCase, by halves
ToLowerCase(s) ==
    IF Len(s) = 0 THEN ""
    ELSE IF Len(s) = 1 THEN LowerChar(s)
    ELSE LET h == Len(s) \div 2
         IN  ToLowerCase(SubSeq(s, 1, h)) \o ToLowerCase(SubSeq(s, h + 1, Len(s)))

RECURSIVE ToUpperCase(_)
\* String.prototype.toUpperCase, by halves
ToUpperCase(s) ==
    IF Len(s) = 0 THEN ""
    ELSE IF Len(s) = 1 THEN UpperChar(s)
    ELSE LET h == Len(s) \div 2
         IN  ToUpperCase(SubSeq(s, 1, h)) \o ToUpperCase(SubSeq(s, h + 1, Len(s)))

\* the characters \s matches among those the model's texts hold
IsSpace(c) == c \in {" ", "\n", "\t"}

RECURSIVE LeadingSpace(_, _)
\* the number of white-space characters of s from position i on
LeadingSpace(s, i) ==
    IF i <= Len(s) /\ IsSpace(SubSeq(s, i, i)) THEN 1 + LeadingSpace(s, i + 1) ELSE 0

RECURSIVE TrailingSpace(_, _)
\* the number of white-space characters of s from position i back
TrailingSpace(s, i) ==
    IF i >= 1 /\ IsSpace(SubSeq(s, i, i)) THEN 1 + TrailingSpace(s, i - 1) ELSE 0

\* String.prototype.trim
TrimStart(s) == SubSeq(s, 1 + LeadingSpace(s, 1), Len(s))

TrimEnd(s) == SubSeq(s, 1, Len(s) - TrailingSpace(s, Len(s)))

Trim(s) == TrimEnd(TrimStart(s))

\* String.prototype.slice(0, n) and substring(0, n)
Slice0(s, n) == SubSeq(s, 1, IF n < Len(s) THEN n ELSE Len(s))

\* String.prototype.lastIndexOf, 1-based, 0 when there is none
LastIndexOf(s, sub) ==
    LET at == { i \in 1..(Len(s) - Len(sub) + 1) : SubSeq(s, i, i + Len(sub) - 1) = sub }
    IN  IF at = {} THEN 0 ELSE Max(at)

\* String.prototype.substring(start, end) with 0-based arguments inside the
\* string: the arguments are swapped when start > end
Substring(s, start, end) ==
    SubSeq(s, Min({start, end}) + 1, Max({start, end}))

RECURSIVE RemoveAllFrom(_, _, _)
\* String.prototype.replace(/sub/g, '') for a literal sub, from position from
\* on: matches are taken left to right and the result is not scanned again
RemoveAllFrom(s, sub, from) ==
    LET i == IndexFrom(s, sub, from)
    IN  IF i = 0 THEN SubSeq(s, from, Len(s))
        ELSE SubSeq(s, from, i - 1) \o RemoveAllFrom(s, sub, i + Len(sub))

RemoveAll(s, sub) == RemoveAllFrom(s, sub, 1)

RECURSIVE Repeat(_, _)
\* String.prototype.repeat
Repeat(s, n) ==
    IF n = 0 THEN ""
    ELSE IF n = 1 THEN s
    ELSE Repeat(s, n \div 2) \o Repeat(s, n - (n \div 2))

\* String.prototype.replace(sub, by) with a string pattern: the first occurrence
ReplaceFirst(s, sub, by) ==
    LET i == IndexFrom(s, sub, 1)
    IN  IF i = 0 THEN s
        ELSE SubSeq(s, 1, i - 1) \o by \o SubSeq(s, i + Len(sub), Len(s))

----------------------------------------------------------------------------
(* The topic tag: the two regular expressions of processResponse *)

TagOpen == "[[TOPIC:"
TagClose == "]]"

\* \s* (greedy) from position i: the first position that is no white space
SkipSpace(s, i) == i + LeadingSpace(s, i)

\* (.*?)\]\] from position i: the position of the first "]]" reached without
\* crossing a line break ('.' matches no "\n"); 0 when there is none
LazyClose(s, i) ==
    LET close == IndexFrom(s, TagClose, i)
        break == IndexFrom(s, "\n", i)
    IN  IF close = 0 \/ (break # 0 /\ break < close) THEN 0 ELSE close

RECURSIVE TopicMatchFrom(_, _)
\* rawText.match(/\[\[TOPIC:\s*(.*?)\]\]/): the leftmost match, as
\* [at, group]; at = 0 when there is no match.  Giving white space back to
\* (.*?) never helps: it meets the same line break or end of text.
TopicMatchFrom(s, from) ==
    LET i == IndexFrom(s, TagOpen, from)
    IN  IF i = 0 THEN [at |-> 0, group |-> ""]
        ELSE LET q == SkipSpace(s, i + Len(TagOpen))
                 e == LazyClose(s, q)
             IN  IF e # 0 THEN [at |-> i, group |-> SubSeq(s, q, e - 1)]
                 ELSE TopicMatchFrom(s, i + 1)

TopicMatch(s) == TopicMatchFrom(s, 1)

RECURSIVE TagSpanFrom(_, _)
\* the leftmost match of /\[\[TOPIC:.*?\]\]/ at or after from, as [at, end];
\* at = 0 when there is none
TagSpanFrom(s, from) ==
    LET i == IndexFrom(s, TagOpen, from)
    IN  IF i = 0 THEN [at |-> 0, end |-> 0]
        ELSE LET e == LazyClose(s, i + Len(TagOpen))
             IN  IF e # 0 THEN [at |-> i, end |-> e + 1]
                 ELSE TagSpanFrom(s, i + 1)

\* the text holds a [[TOPIC: ...]] tag
HasTopicTag(s) == TagSpanFrom(s, 1).at # 0

\* rawText.replace(/\[\[TOPIC:.*?\]\]/, '')
StripFirstTag(s) ==
    LET m == TagSpanFrom(s, 1)
    IN  IF m.at = 0 THEN s
        ELSE SubSeq(s, 1, m.at - 1) \o SubSeq(s, m.end + 1, Len(s))

\* processResponse's return value (App.tsx:183-197)
ProcessedText(rawText) ==
    LET m == TopicMatch(rawText)
    IN  IF m.at # 0 /\ m.group # "" THEN Trim(StripFirstTag(rawText))
        ELSE rawText

\* processResponse reaches the block that sets the topic and the streak
TopicFound(rawText) ==
    LET m == TopicMatch(rawText) IN m.at # 0 /\ m.group # ""

----------------------------------------------------------------------------
(* types.ts *)

User == "user"
Bot == "model"

UPLOAD == "upload"
CHAT == "chat"
DASHBOARD == "dashboard"
HISTORY == "history"
AppMode == {UPLOAD, CHAT, DASHBOARD, HISTORY}

SIMPLIFY == "simplify"
NOTES == "notes"
QUIZ == "quiz"
EXPLAIN == "explain"
ELI5 == "eli5"
DIAGRAM == "diagram"
MNEMONIC == "mnemonic"
REVISION == "revision"
PRACTICE == "practice"
ActionType ==
    {SIMPLIFY, NOTES, QUIZ, EXPLAIN, ELI5, DIAGRAM, MNEMONIC, REVISION, PRACTICE}

\* an absent optional argument (undefined)
Undefined == ""

----------------------------------------------------------------------------
(* geminiService.ts: the fallback mock engine *)

MockPhotosynthesis ==
    "~~ **Photosynthesis (Offline Mode):**\n\n**Process:** ...\n\n[[TOPIC: Biology]]"
MockBalanceSheet ==
    "~~ **Balance Sheet (Offline Mode):**\n\n**Formula:** ...\n\n[[TOPIC: Accounting]]"
MockNewton ==
    "~~ **Newton's Laws (Offline Mode):**\n\n**Law 1 (Inertia):** ...\n\n[[TOPIC: Physics]]"
MockYouTube ==
    "~~ **Offline Mode:**\nMain video analyze nahi kar sakta bina internet ke ..."

\* the keys of the table mocks (geminiService.ts:52-61); EXPLAIN has no entry
MockKeys == {SIMPLIFY, ELI5, MNEMONIC, DIAGRAM, REVISION, NOTES, QUIZ, PRACTICE}

\* names every object inherits from Object.prototype, among them
ObjectPrototypeKeys ==
    {"constructor", "toString", "toLocaleString", "valueOf", "hasOwnProperty",
     "isPrototypeOf", "propertyIsEnumerable", "__proto__"}

\* stands for the inherited member itself, a function or an object and not a
\* string
Inherited(key) == "[Object.prototype." \o key \o "]"

\* the lookup mocks[action] on the object literal: an own entry, an inherited
\* member, or undefined
mocks(action) ==
    CASE action = SIMPLIFY -> "~~ **Simplified (Offline):**\nImagine karo ..."
      [] action = ELI5 -> "~~ **ELI5 (Offline):**\nSocho ...\n\n[[TOPIC: Math]]"
      [] action = MNEMONIC -> "~~ **Memory Trick (Offline):**\nEk funny sentence ..."
      [] action = DIAGRAM ->
           "~~ **Visual Diagram (Offline):**\n^^^\n[ Input ]\n^^^\n...\n\n[[TOPIC: Logic]]"
      [] action = REVISION ->
           "~~ **1-Minute Revision (Offline):**\n- ...\n\n[[TOPIC: Revision]]"
      [] action = NOTES -> "~~ **Offline Notes:**\n- Keywords underline karna."
      [] action = QUIZ -> "~~ **Offline Quiz:**\nQ: ..."
      [] action = PRACTICE -> "~~ **Practice (Offline):**\n1. ..."
      [] action \in ObjectPrototypeKeys -> Inherited(action)
      [] OTHER -> Undefined

GenericEchoLen == 50

GenericFallback(input) ==
    "~~ **Offline Mode Active:**\n\nMaine tumhara question padha: _\""
        \o (IF input # "" THEN Slice0(input, GenericEchoLen) ELSE "Question")
        \o "...\"_\n\n(Please check your API Key/Internet for full AI power!)"

\* getMockResponse(input, action), geminiService.ts:30-70
getMockResponse(input, action) ==
    LET lowerInput == IF input # "" THEN ToLowerCase(input) ELSE ""
    IN  IF Includes(lowerInput, "photosynthesis") THEN MockPhotosynthesis
        ELSE IF Includes(lowerInput, "balance sheet") THEN MockBalanceSheet
        ELSE IF Includes(lowerInput, "newton") \/ Includes(lowerInput, "law")
             THEN MockNewton
        ELSE IF Includes(lowerInput, "youtube.com") \/ Includes(lowerInput, "youtu.be")
             THEN MockYouTube
        ELSE IF action # Undefined /\ mocks(action) # Undefined THEN mocks(action)
        ELSE GenericFallback(input)

\* geminiService.ts:286
getOfflineResponse(input, action) == getMockResponse(input, action)

----------------------------------------------------------------------------
(* App.tsx: the reducer *)

TitleLen == 30

\* the title of a new session (App.tsx:41-44)
SessionTitle(newMessages) ==
    LET users == {i \in 1..Len(newMessages) : newMessages[i].role = User}
    IN  IF users = {} THEN "New Chat"
        ELSE LET firstUserMsg ==
                     newMessages[CHOOSE i \in users : \A j \in users : i <= j]
             IN  IF firstUserMsg.image THEN "Image Question"
                 ELSE Slice0(firstUserMsg.text, TitleLen)
                        \o (IF Len(firstUserMsg.text) > TitleLen THEN "..." ELSE "")

\* a reducer that does not filter the session out before adding it again
WithoutSessionKept(history, id) == history

RECURSIVE WithoutSession(_, _)
\* history.filter(s => s.id !== id)
WithoutSession(history, id) ==
    IF history = <<>> THEN <<>>
    ELSE (IF Head(history).id # id THEN <<Head(history)>> ELSE <<>>)
            \o WithoutSession(Tail(history), id)

SessionIds(history) == {history[i].id : i \in 1..Len(history)}

\* a lookup that takes the first entry whatever its id
FindSessionFirst(history, id) == history[1]

\* Array.prototype.find(s => s.id === id); only used when it exists
FindSession(history, id) ==
    history[CHOOSE i \in 1..Len(history) :
                /\ history[i].id = id
                /\ \A j \in 1..Len(history) : history[j].id = id => i <= j]

\* case 'ADD_MESSAGE' (App.tsx:31-69); ts is the reducer's Date.now()
AddMessage(s, payload, ts) ==
    LET newMessages == Append(s.messages, payload)
        sessionId == IF s.currentSessionId = NULL THEN ts ELSE s.currentSessionId
        sessionTitle ==
            IF s.currentSessionId = NULL THEN SessionTitle(newMessages)
            ELSE IF sessionId \in SessionIds(s.chatHistory)
                 THEN FindSession(s.chatHistory, sessionId).title
                 ELSE "New Chat"
        updatedHistory ==
            Append(WithoutSession(s.chatHistory, sessionId),
                   [id |-> sessionId, title |-> sessionTitle, timestamp |-> ts,
                    messages |-> newMessages])
    IN  [s EXCEPT !.messages = newMessages,
                  !.currentSessionId = sessionId,
                  !.chatHistory = updatedHistory]

\* a reducer that keeps only the message whose flag it sets
UpdateMessageAudioOnly(s, id, isPlaying) ==
    [s EXCEPT !.messages = SelectSeq(s.messages, LAMBDA m : m.id = id)]

\* case 'UPDATE_MESSAGE_AUDIO' (App.tsx:80-84)
UpdateMessageAudio(s, id, isPlaying) ==
    [s EXCEPT !.messages =
        [i \in 1..Len(s.messages) |->
            IF s.messages[i].id = id
            THEN [s.messages[i] EXCEPT !.isAudioPlaying = isPlaying]
            ELSE s.messages[i]]]

\* a reducer whose RESET_APP also leaves offline mode
ResetAppGoesOnline(s) ==
    [s EXCEPT !.messages = <<>>, !.currentSessionId = NULL, !.currentMode = UPLOAD,
              !.isOfflineMode = FALSE]

\* a reducer whose RESET_APP also ends the loading indicator
ResetAppStopsLoading(s) ==
    [s EXCEPT !.messages = <<>>, !.currentSessionId = NULL, !.currentMode = UPLOAD,
              !.isLoading = FALSE]

\* case 'RESET_APP' (App.tsx:86-92)
ResetApp(s) ==
    [s EXCEPT !.messages = <<>>, !.currentSessionId = NULL, !.currentMode = UPLOAD]

\* case 'LOAD_SESSION' (App.tsx:94-100)
LoadSession(s, session) ==
    [s EXCEPT !.messages = session.messages,
              !.currentSessionId = session.id,
              !.currentMode = CHAT]

\* a reducer that leaves the conversation alone whatever it deletes
DeleteSessionOnlyEntry(s, id) ==
    [s EXCEPT !.chatHistory = WithoutSession(s.chatHistory, id)]

\* case 'DELETE_SESSION' (App.tsx:102-108)
DeleteSession(s, id) ==
    LET t == [s EXCEPT !.chatHistory = WithoutSession(s.chatHistory, id)]
    IN  IF s.currentSessionId = id
        THEN [t EXCEPT !.messages = <<>>, !.currentSessionId = NULL,
                       !.currentMode = UPLOAD]
        ELSE t

\* case 'CLEAR_HISTORY' (App.tsx:110-111)
ClearHistory(s) == [s EXCEPT !.chatHistory = <<>>]

\* case 'UPDATE_PROFILE' (App.tsx:74): the payload's fields overwrite
UpdateProfile(s, payload) ==
    [s EXCEPT !.userProfile =
        [f \in DOMAIN s.userProfile |->
            IF f \in DOMAIN payload THEN payload[f] ELSE s.userProfile[f]]]

\* appReducer (App.tsx:26-115); ts is Date.now() as the reducer reads it
appReducer(s, action, ts) ==
    CASE action.type = "ADD_MESSAGE" -> AddMessage(s, action.payload, ts)
      [] action.type = "SET_LOADING" -> [s EXCEPT !.isLoading = action.payload]
      [] action.type = "SET_MODE" -> [s EXCEPT !.currentMode = action.payload]
      [] action.type = "UPDATE_PROFILE" -> UpdateProfile(s, action.payload)
      [] action.type = "SET_YOUTUBE_LINK" -> [s EXCEPT !.youtubeLink = action.payload]
      [] action.type = "SET_OFFLINE_MODE" -> [s EXCEPT !.isOfflineMode = action.payload]
      [] action.type = "UPDATE_MESSAGE_AUDIO" ->
           UpdateMessageAudio(s, action.payload.id, action.payload.isPlaying)
      [] action.type = "RESET_APP" -> ResetApp(s)
      [] action.type = "LOAD_SESSION" -> LoadSession(s, action.payload)
      [] action.type = "DELETE_SESSION" -> DeleteSession(s, action.payload)
      [] action.type = "CLEAR_HISTORY" -> ClearHistory(s)
      [] OTHER -> s

RECURSIVE DispatchAll(_, _, _)
\* the dispatches of one synchronous segment, reduced in order
DispatchAll(s, actions, ts) ==
    IF actions = <<>> THEN s
    ELSE DispatchAll(appReducer(s, Head(actions), ts), Tail(actions), ts)

Types(actions) == [i \in 1..Len(actions) |-> actions[i].type]

----------------------------------------------------------------------------
(* Inputs *)

\* two of the quick-start chips (App.tsx:441)
QuickTopics == {"~~ Photosynthesis", "~ Calculus"}

\* what the user sends as a follow-up: a smart-action button, a typed text
FollowUps == {SIMPLIFY, "aur batao"}

\* what the user pastes into the video input
Links == {"https://youtu.be/abc12345678"}

\* what the remote model answers: response.text and the grounding chunks
Replies ==
    { [text |-> "Inertia hai.\n[[TOPIC: Physics]]", chunks |-> <<"https://x.in">>],
      [text |-> "", chunks |-> <<>>] }

----------------------------------------------------------------------------
(* The session a returning user has in localStorage (App.tsx:118-137) *)

StoredAt == 0

StoredSession ==
    [id |-> StoredAt, title |-> "Explain: ~ Calculus", timestamp |-> StoredAt,
     messages |->
        << [id |-> StoredAt, role |-> User, text |-> "Explain: ~ Calculus",
            image |-> FALSE, isAudioPlaying |-> FALSE],
           [id |-> StoredAt + 1, role |-> Bot, text |-> "Calculus hai.",
            image |-> FALSE, isAudioPlaying |-> FALSE] >>]

FirstNow == StoredAt + 2

\* new Date().toISOString().split('T')[0]
DayOf(t) == t \div TicksPerDay

----------------------------------------------------------------------------
(* Messages and dispatches *)

Msg(id, role, text, image) ==
    [id |-> id, role |-> role, text |-> text, image |-> image,
     isAudioPlaying |-> FALSE]

ADD_MESSAGE(m) == [type |-> "ADD_MESSAGE", payload |-> m]
SET_LOADING(b) == [type |-> "SET_LOADING", payload |-> b]
SET_MODE(m) == [type |-> "SET_MODE", payload |-> m]
SET_OFFLINE_MODE(b) == [type |-> "SET_OFFLINE_MODE", payload |-> b]
UPDATE_PROFILE(p) == [type |-> "UPDATE_PROFILE", payload |-> p]
UPDATE_MESSAGE_AUDIO(id, b) ==
    [type |-> "UPDATE_MESSAGE_AUDIO", payload |-> [id |-> id, isPlaying |-> b]]
RESET_APP == [type |-> "RESET_APP"]

\* what a handler's closure keeps of the state it was rendered with
Closure(s) == [isOfflineMode |-> s.isOfflineMode, userProfile |-> s.userProfile]

\* the dispatches of processResponse (App.tsx:185-193)
ProcessDispatches(rawText, st, t) ==
    IF TopicFound(rawText) /\ DayOf(t) # st.userProfile.lastStudyDate
    THEN << UPDATE_PROFILE([streakDays |-> st.userProfile.streakDays + 1,
                            lastStudyDate |-> DayOf(t)]) >>
    ELSE <<>>

\* a catch block that sets the flag and shows no fallback bubble
CatchDispatchesSilent(mock, t) ==
    << SET_OFFLINE_MODE(TRUE), SET_LOADING(FALSE) >>

\* the catch and finally blocks shared by the four chat handlers
\* (App.tsx:241-248, 271-277, 309-320, 337-345)
CatchDispatches(mock, t) ==
    << SET_OFFLINE_MODE(TRUE),
       ADD_MESSAGE(Msg(t + 1, Bot, mock, FALSE)),
       SET_LOADING(FALSE) >>

ImageOfflineText ==
    "~~ **Offline Mode**: I can't analyze images without internet, but tell me the topic and I'll explain!"

\* appendGroundingSources (geminiService.ts:94-109), for distinct titleless links
RECURSIVE SourceLines(_)
SourceLines(chunks) ==
    IF chunks = <<>> THEN ""
    ELSE "- [Source](" \o Head(chunks) \o ")\n" \o SourceLines(Tail(chunks))

appendGroundingSources(reply, text) ==
    IF reply.chunks = <<>> THEN text
    ELSE text \o "\n\n### ~~ Reference Sources:\n" \o SourceLines(reply.chunks)

OrElse(text, fallback) == IF text = "" THEN fallback ELSE text

\* the user bubble of handleAction (App.tsx:286-296)
DisplayUserText(action) ==
    IF action \in ActionType
    THEN "Apply: " \o ReplaceFirst(ToUpperCase(action), "_", " ")
    ELSE action

----------------------------------------------------------------------------
(* The state after construction *)

InitialProfile(day) == [totalSessions |-> 0, streakDays |-> 1, lastStudyDate |-> day]

\* initialState merged with loadInitialState() (App.tsx:12-24, 118-137)
InitialState(profile, history) ==
    [messages |-> <<>>, chatHistory |-> history, currentSessionId |-> NULL,
     isLoading |-> FALSE, currentMode |-> UPLOAD, userProfile |-> profile,
     youtubeLink |-> "", isOfflineMode |-> FALSE]

\* what the last step did: the handler it belongs to, whether it is the
\* handler's invocation, the offline flag the handler saw when invoked,
\* whether a remote call was issued, whether the call it waited for failed,
\* whether the handler is over, the types it dispatched in order, and the
\* id a DELETE_SESSION carried
Idle ==
    [op |-> "", invoked |-> FALSE, offline |-> FALSE, remote |-> FALSE,
     failed |-> FALSE, finished |-> FALSE, types |-> <<>>, deleted |-> NULL]

Step(op, invoked, offline, remote, failed, finished, actions) ==
    [op |-> op, invoked |-> invoked, offline |-> offline, remote |-> remote,
     failed |-> failed, finished |-> finished, types |-> Types(actions),
     deleted |-> NULL]

\* the runs that follow the streak are longer and have fewer inputs
Budget == IF call.fn = "processResponse" THEN MaxStreakSteps ELSE MaxSteps

\* every step of a run counts against its budget; an app that React has
\* unmounted handles no event and ignores every dispatch
CountStep == ~crashed /\ steps < Budget /\ steps' = steps + 1

\* a session of the history holds an image: its data URL is stored with the
\* message (App.tsx:262)
HasImage(history) ==
    \E i \in 1..Len(history) :
        \E j \in 1..Len(history[i].messages) : history[i].messages[j].image

\* JSON.stringify followed by JSON.parse (App.tsx:123-124, 163, 168) keeps
\* strings, numbers, booleans, arrays and objects as they are and loses the
\* properties whose value is undefined; the model writes such a property as
\* FALSE, so a stored value reads back as the same model value
Stored(profile, history) == [tutorAiProfile |-> profile, tutorAiHistory |-> history]

\* loadInitialState (App.tsx:118-131)
loadInitialState(storage) ==
    [profile |-> storage.tutorAiProfile, history |-> storage.tutorAiHistory]

\* the persistence effects (App.tsx:161-169), run after the render that
\* follows the step's dispatches, each when its dependency has changed.
\* localStorage.setItem throws QuotaExceededError when the value does not
\* fit the origin's quota; a history with image data URLs may or may not fit.
\* Nothing catches the error: the profile is written, the history is not.
Persist ==
    LET profileChanged == state'.userProfile # state.userProfile
        historyChanged == state'.chatHistory # state.chatHistory
    IN  \E fits \in (IF historyChanged /\ HasImage(state'.chatHistory)
                      THEN BOOLEAN ELSE {TRUE}) :
            /\ localStorage' =
                  Stored(IF profileChanged THEN state'.userProfile
                         ELSE localStorage.tutorAiProfile,
                         IF historyChanged /\ fits THEN state'.chatHistory
                         ELSE localStorage.tutorAiHistory)
            /\ crashed' = ~fits

\* no service function is being looked at on its own
NoResult == [text |-> "", lists |-> {}, sent |-> FALSE]

NoCall == [fn |-> "", input |-> "", option |-> "", done |-> FALSE, result |-> NoResult]

\* the topic lists of the versions that track topics are not being followed
NoTopics ==
    [version |-> "", currentTopic |-> "", weakTopics |-> <<>>, strongTopics |-> <<>>,
     marked |-> ""]

AudioInit ==
    /\ audioContext = "null"
    /\ currentSource = NULL
    /\ sources = <<>>
    /\ plays = {}
    /\ calls = 0

AppInit ==
    /\ now = FirstNow
    /\ \/ /\ apiKey \in BOOLEAN
          /\ state = InitialState(InitialProfile(DayOf(FirstNow)), <<>>)
       \/ /\ apiKey = TRUE
          /\ state = InitialState(InitialProfile(DayOf(StoredAt)), <<StoredSession>>)
    /\ chatSession = NULL
    /\ chats = 0
    /\ inflight = {}
    /\ steps = 0
    /\ lastStep = Idle
    /\ localStorage = Stored(state.userProfile, state.chatHistory)
    /\ crashed = FALSE
    /\ AudioInit

Init == AppInit /\ call = NoCall /\ topics = NoTopics

----------------------------------------------------------------------------
(* Handlers of App.tsx: the segment run when the UI event arrives *)

\* a handler that never looks at the offline flag
ThrowsOfflineNever(s) == FALSE

\* the guard at the head of each try block: if (state.isOfflineMode) throw
\* (App.tsx:236, 266, 305, 334); s is the state the handler closed over
ThrowsOffline(s) == s.isOfflineMode

\* chat is the remote chat the handler's prompt is sent to, NULL when none is
InFlight(kind, arg, fate, chat) ==
    [hid |-> steps + 1, kind |-> kind, arg |-> arg, st |-> Closure(state),
     fate |-> fate, chat |-> chat]

\* the chat a call of startNewSession or analyzeYouTubeVideo creates and
\* sends its prompt to (geminiService.ts:119-133, 152-176)
CreatedChat == IF apiKey THEN chats + 1 ELSE NULL

\* a service that keeps the first chat it created
CreateChatOnce ==
    IF apiKey
    THEN /\ chats' = chats + 1
         /\ chatSession' = IF chatSession = NULL THEN chats + 1 ELSE chatSession
    ELSE UNCHANGED <<chats, chatSession>>

\* createClient() followed by client.chats.create() (geminiService.ts:119-124,
\* 152-158): without a key nothing is created and the call is over
CreateChat ==
    IF apiKey
    THEN chats' = chats + 1 /\ chatSession' = chats + 1
    ELSE UNCHANGED <<chats, chatSession>>

\* App.tsx:226-233
QuickStartDispatches(s, topic, t) ==
    (IF s.currentMode # CHAT THEN <<RESET_APP>> ELSE <<>>)
        \o << SET_LOADING(TRUE), SET_MODE(CHAT),
              ADD_MESSAGE(Msg(t, User, "Explain: " \o topic, FALSE)) >>

\* handleQuickStart (App.tsx:224-249) up to its await
HandleQuickStart(topic) ==
    /\ state.currentMode = UPLOAD
    /\ CountStep
    /\ IF ThrowsOffline(state)
       THEN LET all == QuickStartDispatches(state, topic, now)
                         \o CatchDispatches(getOfflineResponse(topic, EXPLAIN), now)
            IN  /\ state' = DispatchAll(state, all, now)
                /\ lastStep' = Step("handleQuickStart", TRUE, state.isOfflineMode, FALSE,
                                    FALSE, TRUE, all)
                /\ UNCHANGED <<inflight, chats, chatSession>>
       ELSE LET pre == QuickStartDispatches(state, topic, now)
            IN  /\ state' = DispatchAll(state, pre, now)
                /\ CreateChat
                /\ inflight' = inflight \cup
                      {InFlight("quick", topic, IF apiKey THEN "remote" ELSE "nokey",
                                CreatedChat)}
                /\ lastStep' = Step("handleQuickStart", TRUE, state.isOfflineMode, apiKey,
                                    FALSE, FALSE, pre)
    /\ UNCHANGED <<now, apiKey, audioVars, call, topics>>
    /\ Persist

\* App.tsx:252-254
ImageSelectDispatches == << RESET_APP, SET_LOADING(TRUE), SET_MODE(CHAT) >>

\* handleImageSelect (App.tsx:251-280) up to reader.readAsDataURL
HandleImageSelect ==
    /\ state.currentMode = UPLOAD
    /\ CountStep
    /\ state' = DispatchAll(state, ImageSelectDispatches, now)
    /\ inflight' = inflight \cup {InFlight("image", "", "reading", NULL)}
    /\ lastStep' = Step("handleImageSelect", TRUE, state.isOfflineMode, FALSE, FALSE,
                        FALSE, ImageSelectDispatches)
    /\ UNCHANGED <<now, apiKey, chats, chatSession, audioVars, call, topics>>
    /\ Persist

\* reader.onloadend (App.tsx:257-278) up to its await.  A read that failed
\* leaves reader.result null: split throws, nothing is dispatched.
OnLoadEnd(h, readOk) ==
    /\ h \in inflight /\ h.fate = "reading"
    /\ IF ~readOk
       THEN /\ inflight' = inflight \ {h}
            /\ lastStep' = Step("handleImageSelect", FALSE, h.st.isOfflineMode, FALSE,
                                FALSE, TRUE, <<>>)
            /\ UNCHANGED <<state, chats, chatSession>>
       ELSE LET user == << ADD_MESSAGE(Msg(now, User, "Can you explain this question?",
                                           TRUE)) >>
            IN  IF ThrowsOffline(h.st)
                THEN LET all == user \o CatchDispatches(ImageOfflineText, now)
                     IN  /\ state' = DispatchAll(state, all, now)
                         /\ inflight' = inflight \ {h}
                         /\ lastStep' = Step("handleImageSelect", FALSE, h.st.isOfflineMode, FALSE,
                                             FALSE, TRUE, all)
                         /\ UNCHANGED <<chats, chatSession>>
                ELSE /\ state' = DispatchAll(state, user, now)
                     /\ CreateChat
                     /\ inflight' = (inflight \ {h}) \cup
                           {[h EXCEPT !.fate = IF apiKey THEN "remote" ELSE "nokey",
                                      !.chat = CreatedChat]}
                     /\ lastStep' = Step("handleImageSelect", FALSE, h.st.isOfflineMode, apiKey,
                                         FALSE, FALSE, user)
    /\ CountStep
    /\ UNCHANGED <<now, apiKey, audioVars, call, topics>>
    /\ Persist

\* App.tsx:327-331
VideoDispatches(trimmedLink, t) ==
    << RESET_APP, SET_LOADING(TRUE), SET_MODE(CHAT),
       ADD_MESSAGE(Msg(t, User, "Video: " \o trimmedLink, FALSE)) >>

\* handleVideoAnalysis (App.tsx:323-346) up to its await
HandleVideoAnalysis ==
    LET trimmedLink == Trim(state.youtubeLink)
    IN  /\ state.currentMode = UPLOAD
        /\ trimmedLink # ""
        /\ CountStep
        /\ IF ThrowsOffline(state)
           THEN LET all == VideoDispatches(trimmedLink, now)
                     \o CatchDispatches(getOfflineResponse(trimmedLink, Undefined), now)
                IN  /\ state' = DispatchAll(state, all, now)
                    /\ lastStep' = Step("handleVideoAnalysis", TRUE, state.isOfflineMode, FALSE, FALSE,
                                        TRUE, all)
                    /\ UNCHANGED <<inflight, chats, chatSession>>
           ELSE LET pre == VideoDispatches(trimmedLink, now)
                IN  /\ state' = DispatchAll(state, pre, now)
                    /\ CreateChat
                    /\ inflight' = inflight \cup
                          {InFlight("video", trimmedLink,
                                    IF apiKey THEN "remote" ELSE "mock", CreatedChat)}
                    /\ lastStep' = Step("handleVideoAnalysis", TRUE, state.isOfflineMode, apiKey,
                                        FALSE, FALSE, pre)
        /\ UNCHANGED <<now, apiKey, audioVars, call, topics>>
        /\ Persist

\* a handler that adds the user bubble whatever the last message is
ActionDispatchesAlways(s, action, t) ==
    << SET_LOADING(TRUE), ADD_MESSAGE(Msg(t, User, DisplayUserText(action), FALSE)) >>

\* App.tsx:283-302
ActionDispatches(s, action, t) ==
    LET displayUserText == DisplayUserText(action)
        n == Len(s.messages)
    IN  << SET_LOADING(TRUE) >>
          \o (IF n = 0 \/ s.messages[n].role # User
                       \/ s.messages[n].text # displayUserText
              THEN << ADD_MESSAGE(Msg(t, User, displayUserText, FALSE)) >>
              ELSE <<>>)

\* handleAction (App.tsx:282-321) up to its await.  In the catch block
\* typeof action is 'string' for a button too (ActionType is a string enum),
\* so userQuery is the action and actionType is undefined.
HandleAction(action) ==
    /\ state.currentMode = CHAT
    /\ action \in ActionType => ~state.isLoading
    /\ CountStep
    /\ IF ThrowsOffline(state)
       THEN LET all == ActionDispatches(state, action, now)
                         \o CatchDispatches(getOfflineResponse(action, Undefined), now)
            IN  /\ state' = DispatchAll(state, all, now)
                /\ lastStep' = Step("handleAction", TRUE, state.isOfflineMode, FALSE, FALSE,
                                    TRUE, all)
                /\ UNCHANGED inflight
       ELSE LET pre == ActionDispatches(state, action, now)
                sent == chatSession # NULL
            IN  /\ state' = DispatchAll(state, pre, now)
                /\ inflight' = inflight \cup
                      {InFlight("action", action, IF sent THEN "remote" ELSE "nochat",
                                chatSession)}
                /\ lastStep' = Step("handleAction", TRUE, state.isOfflineMode, sent, FALSE,
                                    FALSE, pre)
    /\ UNCHANGED <<now, apiKey, chats, chatSession, audioVars, call, topics>>
    /\ Persist

\* handleSpeak (App.tsx:199-222) up to its await; i is the bubble clicked
HandleSpeak(i) ==
    /\ state.currentMode = CHAT
    /\ i \in 1..Len(state.messages)
    /\ state.messages[i].role = Bot
    /\ CountStep
    /\ LET msg == state.messages[i]
       IN  IF msg.isAudioPlaying
           THEN LET all == << UPDATE_MESSAGE_AUDIO(msg.id, FALSE) >>
                IN  /\ state' = DispatchAll(state, all, now)
                    /\ lastStep' = Step("handleSpeak", TRUE, state.isOfflineMode, FALSE,
                                        FALSE, TRUE, all)
                    /\ UNCHANGED inflight
           ELSE LET pre == << UPDATE_MESSAGE_AUDIO(msg.id, TRUE) >>
                IN  /\ state' = DispatchAll(state, pre, now)
                    /\ inflight' = inflight \cup
                          {InFlight("speak", msg.id, IF apiKey THEN "remote" ELSE "nokey",
                                    NULL)}
                    /\ lastStep' = Step("handleSpeak", TRUE, state.isOfflineMode, apiKey,
                                        FALSE, FALSE, pre)
    /\ UNCHANGED <<now, apiKey, chats, chatSession, audioVars, call, topics>>
    /\ Persist

----------------------------------------------------------------------------
(* Handlers of App.tsx: the segment run when the awaited call settles *)

HandlerOf(kind) ==
    CASE kind = "quick" -> "handleQuickStart"
      [] kind = "image" -> "handleImageSelect"
      [] kind = "video" -> "handleVideoAnalysis"
      [] kind = "action" -> "handleAction"
      [] kind = "speak" -> "handleSpeak"

\* a continuation that drops the reply of a call
ResolvedDispatchesDropped(h, rawResponse, t) == << SET_LOADING(FALSE) >>

\* the try block after the await: the bot bubble of a resolved call
\* (App.tsx:238-240, 268-270, 307-308, 336)
ResolvedDispatches(h, rawResponse, t) ==
    ProcessDispatches(rawResponse, h.st, t)
        \o << ADD_MESSAGE(Msg(t + 1, Bot, ProcessedText(rawResponse), FALSE)) >>
        \o (IF h.kind \in {"quick", "image"}
            THEN << UPDATE_PROFILE(
                      [totalSessions |-> h.st.userProfile.totalSessions + 1]) >>
            ELSE <<>>)
        \o << SET_LOADING(FALSE) >>

\* the mock a handler's catch block shows (App.tsx:244, 274, 313-316, 341)
CatchText(h) ==
    CASE h.kind = "quick" -> getOfflineResponse(h.arg, EXPLAIN)
      [] h.kind = "image" -> ImageOfflineText
      [] h.kind = "video" -> getOfflineResponse(h.arg, Undefined)
      [] h.kind = "action" -> getOfflineResponse(h.arg, Undefined)

\* handleSpeak's finally block (App.tsx:219-221)
SpeakFinally(h) == << UPDATE_MESSAGE_AUDIO(h.arg, FALSE) >>

\* what the service call resolves to when the remote model answers
\* (geminiService.ts:133-134, 176-177, 210-211)
ServiceAnswer(h, reply) ==
    CASE h.kind \in {"quick", "image"} ->
           OrElse(reply.text, "Sorry, I couldn't analyze that.")
      [] h.kind = "video" ->
           appendGroundingSources(reply, OrElse(reply.text, "Could not analyze video."))
      [] h.kind = "action" ->
           appendGroundingSources(reply, OrElse(reply.text, "No response."))

\* the remote model answers
SettleOkDispatches(h, reply, t) ==
    IF h.kind = "speak" THEN SpeakFinally(h)
    ELSE ResolvedDispatches(h, ServiceAnswer(h, reply), t)

\* the remote call raises a network or API error: startNewSession rethrows
\* (geminiService.ts:136-142), analyzeYouTubeVideo and sendFollowUp return a
\* text (geminiService.ts:178-181, 212-216), generateSpeech rethrows
SettleErrorDispatches(h, t) ==
    CASE h.kind \in {"quick", "image"} -> CatchDispatches(CatchText(h), t)
      [] h.kind = "video" ->
           ResolvedDispatches(h, "Sorry, I encountered an error analyzing the video.", t)
      [] h.kind = "action" ->
           ResolvedDispatches(h, getMockResponse("Follow Up", h.arg), t)
      [] h.kind = "speak" -> SpeakFinally(h)

\* the service call threw before any request was sent: createClient without
\* a key (geminiService.ts:72-78), sendFollowUp without a chat (186-190)
SettleThrownDispatches(h, t) ==
    IF h.kind = "speak" THEN SpeakFinally(h)
    ELSE CatchDispatches(CatchText(h), t)

\* analyzeYouTubeVideo without a key resolves to the mock (geminiService.ts:147-149)
SettleMockDispatches(h, t) ==
    ResolvedDispatches(h, getMockResponse(h.arg, Undefined), t)

Finish(h, actions, failed) ==
    /\ state' = DispatchAll(state, actions, now)
    /\ inflight' = inflight \ {h}
    /\ lastStep' = Step(HandlerOf(h.kind), FALSE, h.st.isOfflineMode, FALSE, failed,
                        TRUE, actions)
    /\ CountStep
    /\ UNCHANGED <<now, apiKey, chats, chatSession, audioVars, call, topics>>
    /\ Persist

SettleOk(h, reply) ==
    /\ h \in inflight /\ h.fate = "remote"
    /\ Finish(h, SettleOkDispatches(h, reply, now), FALSE)

SettleError(h) ==
    /\ h \in inflight /\ h.fate = "remote"
    /\ Finish(h, SettleErrorDispatches(h, now), TRUE)

SettleThrown(h) ==
    /\ h \in inflight /\ h.fate \in {"nokey", "nochat"}
    /\ Finish(h, SettleThrownDispatches(h, now), h.fate = "nokey")

SettleMock(h) ==
    /\ h \in inflight /\ h.fate = "mock"
    /\ Finish(h, SettleMockDispatches(h, now), TRUE)

----------------------------------------------------------------------------
(* UI events that dispatch directly *)

Ui(actions) ==
    /\ CountStep
    /\ state' = DispatchAll(state, actions, now)
    /\ lastStep' = [Idle EXCEPT !.types = Types(actions),
                                !.deleted = IF actions[1].type = "DELETE_SESSION"
                                            THEN actions[1].payload ELSE NULL]
    /\ UNCHANGED <<now, apiKey, chats, chatSession, inflight, audioVars, call, topics>>
    /\ Persist

\* Sidebar onNewChat (App.tsx:409)
NewChat ==
    /\ state.messages # <<>> \/ state.currentMode # UPLOAD
    /\ Ui(<<RESET_APP>>)

\* the views with controls that act on the conversation; the dashboard
\* (ProfileModal) only leads back to one of them (App.tsx:389-395)
Views == {UPLOAD, CHAT, HISTORY}

\* Sidebar onNavigate (App.tsx:403)
Navigate(mode) ==
    /\ mode # state.currentMode
    /\ Ui(<<SET_MODE(mode)>>)

\* the video input's onChange (App.tsx:455)
SetYoutubeLink(link) ==
    /\ state.currentMode = UPLOAD
    /\ link # state.youtubeLink
    /\ Ui(<<[type |-> "SET_YOUTUBE_LINK", payload |-> link]>>)

\* HistoryView onSelect (App.tsx:466)
SelectSession(i) ==
    /\ state.currentMode = HISTORY
    /\ i \in 1..Len(state.chatHistory)
    /\ Ui(<<[type |-> "LOAD_SESSION", payload |-> state.chatHistory[i]]>>)

\* HistoryView onDelete (App.tsx:467)
DeleteSessionClick(i) ==
    /\ state.currentMode = HISTORY
    /\ i \in 1..Len(state.chatHistory)
    /\ Ui(<<[type |-> "DELETE_SESSION", payload |-> state.chatHistory[i].id]>>)

\* HistoryView onClear, confirmed (App.tsx:468-472); the button is shown
\* when there are sessions (part_004:35-58)
ClearAll ==
    /\ state.currentMode = HISTORY
    /\ Len(state.chatHistory) > 0
    /\ Ui(<<[type |-> "CLEAR_HISTORY"]>>)

\* time passes
Tick ==
    /\ CountStep
    /\ now' = now + 1
    /\ lastStep' = Idle
    /\ UNCHANGED <<state, apiKey, chats, chatSession, inflight, audioVars, call, topics>>
    /\ Persist

----------------------------------------------------------------------------

Next ==
    \/ \E topic \in QuickTopics : HandleQuickStart(topic)
    \/ HandleImageSelect
    \/ \E h \in inflight, readOk \in BOOLEAN : OnLoadEnd(h, readOk)
    \/ HandleVideoAnalysis
    \/ \E action \in FollowUps : HandleAction(action)
    \/ \E i \in 1..Len(state.messages) : HandleSpeak(i)
    \/ \E h \in inflight, reply \in Replies : SettleOk(h, reply)
    \/ \E h \in inflight : SettleError(h)
    \/ \E h \in inflight : SettleThrown(h)
    \/ \E h \in inflight : SettleMock(h)
    \/ NewChat
    \/ \E mode \in Views : Navigate(mode)
    \/ \E link \in Links \cup {""} : SetYoutubeLink(link)
    \/ \E i \in 1..Len(state.chatHistory) : SelectSession(i)
    \/ \E i \in 1..Len(state.chatHistory) : DeleteSessionClick(i)
    \/ ClearAll
    \/ Tick

Spec == Init /\ [][Next]_vars

----------------------------------------------------------------------------
(* The streak: a returning user, one chip, one typed follow-up, answers that
   carry a topic tag, and the clock *)

InitStreak ==
    /\ AppInit
    /\ apiKey /\ state.chatHistory # <<>>
    /\ call = [NoCall EXCEPT !.fn = "processResponse"]
    /\ topics = NoTopics

NextStreak ==
    \/ HandleQuickStart("~ Calculus")
    \/ HandleAction("aur batao")
    \/ \E h \in inflight, reply \in {r \in Replies : TopicFound(r.text)} : SettleOk(h, reply)
    \/ Tick

SpecStreak == InitStreak /\ [][NextStreak]_vars

----------------------------------------------------------------------------
(* audioUtils (part_005): playAudioStream, cut at its awaits *)

\* part_005:52-60: stop the source that is playing
StopCurrent(srcs, cur) ==
    IF cur # NULL /\ srcs[cur] = "started" THEN [srcs EXCEPT ![cur] = "stopped"]
    ELSE srcs

\* part_005:52-64, from the stop to the await of decodeAudioData.  decode
\* throws on a payload that is no base64 PCM; the catch block rethrows
\* (part_005:84-93) and the call is over.
StopAndDecode(p, decodes) ==
    /\ sources' = StopCurrent(sources, currentSource)
    /\ currentSource' = NULL
    /\ plays' = (plays \ {p}) \cup
                  (IF decodes THEN {[p EXCEPT !.pc = "decoded"]} ELSE {})

\* playAudioStream is called (part_005:37-49).  A context is created on the
\* first call; the browser's autoplay policy decides whether it starts
\* suspended.
PlayCall(decodes, suspended) ==
    /\ calls < MaxPlays
    /\ calls' = calls + 1
    /\ LET p == [pid |-> calls + 1, pc |-> "resume", decodes |-> decodes, source |-> NULL]
           ctx == IF audioContext = "null"
                  THEN (IF suspended THEN "suspended" ELSE "running")
                  ELSE audioContext
       IN  IF ctx = "suspended"
           THEN /\ audioContext' = ctx
                /\ plays' = plays \cup {p}
                /\ UNCHANGED <<sources, currentSource>>
           ELSE /\ audioContext' = ctx
                /\ StopAndDecode(p, decodes)
    /\ UNCHANGED <<appVars, call, topics>>

\* audioContext.resume() resolves (part_005:48), the call goes on to line 52
PlayResumed(p) ==
    /\ p \in plays /\ p.pc = "resume"
    /\ audioContext # "null"
    /\ audioContext' = "running"
    /\ StopAndDecode(p, p.decodes)
    /\ UNCHANGED <<calls, appVars, call, topics>>

\* audioContext.resume() rejects, or the context was reset by another call's
\* catch block meanwhile: the catch block closes a suspended context and
\* forgets it (part_005:84-93)
PlayResumeFailed(p) ==
    /\ p \in plays /\ p.pc = "resume"
    /\ audioContext' = IF audioContext = "suspended" THEN "null" ELSE audioContext
    /\ plays' = plays \ {p}
    /\ UNCHANGED <<sources, currentSource, calls, appVars, call, topics>>

\* decodeAudioData has resolved (part_005:66-83): the source is created,
\* tracked and started
PlayStart(p) ==
    /\ p \in plays /\ p.pc = "decoded"
    /\ IF audioContext = "null"
       THEN /\ plays' = plays \ {p}
            /\ UNCHANGED <<sources, currentSource>>
       ELSE LET source == Len(sources) + 1
            IN  /\ sources' = Append(sources, "started")
                /\ currentSource' = source
                /\ plays' = (plays \ {p}) \cup
                              {[p EXCEPT !.pc = "playing", !.source = source]}
    /\ UNCHANGED <<audioContext, calls, appVars, call, topics>>

\* source.onended fires (part_005:76-82), after the buffer has played to its
\* end or after stop()
SourceEnded(p) ==
    /\ p \in plays /\ p.pc = "playing"
    /\ sources' = [sources EXCEPT ![p.source] = "ended"]
    /\ currentSource' = IF currentSource = p.source THEN NULL ELSE currentSource
    /\ plays' = plays \ {p}
    /\ UNCHANGED <<audioContext, calls, appVars, call, topics>>

NextAudio ==
    \/ \E decodes \in BOOLEAN, suspended \in BOOLEAN : PlayCall(decodes, suspended)
    \/ \E p \in plays : PlayResumed(p)
    \/ \E p \in plays : PlayResumeFailed(p)
    \/ \E p \in plays : PlayStart(p)
    \/ \E p \in plays : SourceEnded(p)

SpecAudio == Init /\ [][NextAudio]_vars

----------------------------------------------------------------------------
(* geminiService.ts: the service functions on their own *)

\* cleanJson (geminiService.ts:81-92)
cleanJson(text) ==
    IF text = "" THEN "{}"
    ELSE LET clean == RemoveAll(RemoveAll(text, "^^^json"), "^^^")
             start == IndexFrom(clean, "{", 1)
             end == LastIndexOf(clean, "}")
         IN  IF start # 0 /\ end # 0 THEN Substring(clean, start - 1, end)
             ELSE "{}"

FullReportJson == "{\"commonMistakes\":[\"units\"],\"learningTips\":[\"revise\"]}"
TipsOnlyJson == "{\"learningTips\":[\"revise\"]}"

\* JSON.parse on the documents the replies below can lead to: whether it
\* returns, and the properties of the object that are lists.  Any other
\* text here is no JSON and makes it throw SyntaxError.
JsonParse(text) ==
    CASE text = "{}" -> [ok |-> TRUE, lists |-> {}]
      [] text = FullReportJson -> [ok |-> TRUE, lists |-> {"commonMistakes", "learningTips"}]
      [] text = TipsOnlyJson -> [ok |-> TRUE, lists |-> {"learningTips"}]
      [] OTHER -> [ok |-> FALSE, lists |-> {}]

\* the object of the catch block (geminiService.ts:261-265)
DefaultReport == {"commonMistakes", "learningTips"}

\* generateProgressReport (geminiService.ts:248-266): the list properties of
\* the object it resolves to.  outcome is what the remote call does, text is
\* response.text.
generateProgressReport(outcome, text) ==
    IF ~apiKey \/ outcome = "error" THEN DefaultReport
    ELSE LET parsed == JsonParse(cleanJson(OrElse(text, "{}")))
         IN  IF parsed.ok THEN parsed.lists ELSE DefaultReport

SourceOpen == "[Source]("

RECURSIVE SourceSpanFrom(_, _)
\* the leftmost match of /\[Source\]\(.*?\)/ at or after from, as [at, end]
SourceSpanFrom(s, from) ==
    LET i == IndexFrom(s, SourceOpen, from)
    IN  IF i = 0 THEN [at |-> 0, end |-> 0]
        ELSE LET close == IndexFrom(s, ")", i + Len(SourceOpen))
                 newline == IndexFrom(s, "\n", i + Len(SourceOpen))
             IN  IF close # 0 /\ (newline = 0 \/ newline > close)
                 THEN [at |-> i, end |-> close]
                 ELSE SourceSpanFrom(s, i + 1)

RECURSIVE RemoveTagsFrom(_, _)
\* replace(/\[\[TOPIC:.*?\]\]/g, '')
RemoveTagsFrom(s, from) ==
    LET m == TagSpanFrom(s, from)
    IN  IF m.at = 0 THEN SubSeq(s, from, Len(s))
        ELSE SubSeq(s, from, m.at - 1) \o RemoveTagsFrom(s, m.end + 1)

RECURSIVE RemoveSourcesFrom(_, _)
\* replace(/\[Source\]\(.*?\)/g, '')
RemoveSourcesFrom(s, from) ==
    LET m == SourceSpanFrom(s, from)
    IN  IF m.at = 0 THEN SubSeq(s, from, Len(s))
        ELSE SubSeq(s, from, m.at - 1) \o RemoveSourcesFrom(s, m.end + 1)

SpeechLimit == 800

\* the text generateSpeech sends (geminiService.ts:223-229)
SpeechText(text) ==
    LET noHeadings == RemoveAll(text, "###")
        noBold == RemoveAll(noHeadings, "**")
        noTags == RemoveTagsFrom(noBold, 1)
        noTicks == RemoveAll(noTags, "^")
        cleanText == RemoveSourcesFrom(noTicks, 1)
    IN  IF Len(cleanText) > SpeechLimit THEN Substring(cleanText, 0, SpeechLimit)
        ELSE cleanText

\* the texts getMockResponse is called with
MockInputs ==
    { "", "What is Photosynthesis?", "PHOTOSYNTHESIS ka balance sheet",
      "Balance Sheet of Newton & Co", "Newton ke laws on youtube.com",
      "a flaw in https://youtu.be/abc12345678", "https://www.YouTube.com/watch?v=1",
      "Follow Up", "simplify",
      "Trigonometry ke saare identities ek saath yaad karne ka tarika batao" }

\* the second argument of getMockResponse: a button's action, nothing, or,
\* from the catch of sendFollowUp (geminiService.ts:215), the text the user typed
MockActions == ActionType \cup {Undefined, "aur batao", "constructor"}

\* what response.text of the report request can be
ReportReplies ==
    { "", "Sorry, I have no data.", FullReportJson,
      "^^^json\n" \o FullReportJson \o "\n^^^", TipsOnlyJson,
      "{ \"commonMistakes\": [", "} none {" }

\* texts of bot bubbles handed to generateSpeech
SpeechInputs ==
    { "### Inertia\n**Newton** ka ^first law^.\n[[TOPIC: Physics]]\n- [Source](https://x.in)",
      "Calculus hai.",
      "#**## Note",
      "*^* star",
      "[[TOPIC: a]] and [[TOP^IC: b]]",
      "[[TOPIC: Chemical\nBonding]]",
      "**Lambi kahani** " \o Repeat("padhai karo ", 70),
      Repeat("a", SpeechLimit - 1) \o "#[Source](x)##" }

ServiceCalls ==
    { [NoCall EXCEPT !.fn = "getMockResponse", !.input = input, !.option = action] :
          input \in MockInputs, action \in MockActions }
    \cup
    { [NoCall EXCEPT !.fn = "generateProgressReport", !.input = text, !.option = outcome] :
          text \in ReportReplies, outcome \in {"answer", "error"} }
    \cup
    { [NoCall EXCEPT !.fn = "generateSpeech", !.input = text] : text \in SpeechInputs }

InitService == AppInit /\ call \in ServiceCalls /\ topics = NoTopics

Return(result) ==
    /\ ~call.done
    /\ call' = [call EXCEPT !.done = TRUE, !.result = result]
    /\ UNCHANGED <<appVars, audioVars, topics>>

CallGetMockResponse ==
    /\ call.fn = "getMockResponse"
    /\ Return([NoResult EXCEPT !.text = getMockResponse(call.input, call.option)])

CallGenerateProgressReport ==
    /\ call.fn = "generateProgressReport"
    /\ Return([NoResult EXCEPT !.lists = generateProgressReport(call.option, call.input)])

\* generateSpeech (geminiService.ts:219-246) up to its request: createClient
\* throws without a key and nothing is sent
CallGenerateSpeech ==
    /\ call.fn = "generateSpeech"
    /\ Return(IF apiKey THEN [NoResult EXCEPT !.text = SpeechText(call.input), !.sent = TRUE]
              ELSE NoResult)

NextService ==
    \/ CallGetMockResponse
    \/ CallGenerateProgressReport
    \/ CallGenerateSpeech

SpecService == InitService /\ [][NextService]_vars

----------------------------------------------------------------------------
(* App.tsx: the reducer on its own, over every field of AppState *)

\* states of the shape of initialState (App.tsx:12-24, types.ts:116-128)
AppStates ==
    { [messages |-> messages, chatHistory |-> history, currentSessionId |-> id,
       isLoading |-> loading, currentMode |-> mode, error |-> NULL,
       userProfile |-> InitialProfile(DayOf(StoredAt)), isProfileOpen |-> profileOpen,
       youtubeLink |-> link, isListening |-> listening, isOfflineMode |-> offline] :
          messages \in {<<>>, StoredSession.messages},
          history \in {<<>>, <<StoredSession>>},
          id \in {NULL, StoredAt},
          loading \in BOOLEAN, listening \in BOOLEAN, offline \in BOOLEAN,
          profileOpen \in BOOLEAN,
          mode \in {UPLOAD, CHAT, HISTORY, DASHBOARD},
          link \in Links \cup {""} }

ReducerCalls ==
    { [NoCall EXCEPT !.fn = "appReducer", !.input = s, !.option = RESET_APP] :
          s \in AppStates }

InitReducer == AppInit /\ call \in ReducerCalls /\ topics = NoTopics

\* dispatch(action) on the state s
CallAppReducer ==
    /\ call.fn = "appReducer"
    /\ Return(appReducer(call.input, call.option, now))

NextReducer == CallAppReducer

SpecReducer == InitReducer /\ [][NextReducer]_vars

----------------------------------------------------------------------------
(* The versions that track topics (part_001, part_002): currentTopic and the
   weak and strong topic lists of the profile *)

Versions == {"part_001", "part_002"}

\* the topics the tags of the answers name
Topics == {"Physics", "Math", "Biology"}

Includes1(list, x) == \E i \in 1..Len(list) : list[i] = x

\* list.filter(t => t !== x)
Without(list, x) == SelectSeq(list, LAMBDA t : t # x)

\* a marking that never touches the other list
updateProfileTopicsOneList(version, profile, currentTopic, type) ==
    IF currentTopic = "" THEN profile
    ELSE IF type = "weak"
         THEN [profile EXCEPT !.weakTopics =
                  IF Includes1(@, currentTopic) THEN @ ELSE Append(@, currentTopic)]
         ELSE [profile EXCEPT !.strongTopics =
                  IF Includes1(@, currentTopic) THEN @ ELSE Append(@, currentTopic)]

\* updateProfileTopics (part_001:73-93, part_002:89-105): part_001 filters
\* the other list when it holds the topic, part_002 always
updateProfileTopics(version, profile, currentTopic, type) ==
    IF currentTopic = "" THEN profile
    ELSE LET isWeak == Includes1(profile.weakTopics, currentTopic)
             isStrong == Includes1(profile.strongTopics, currentTopic)
             always == version = "part_002"
             pushedWeak == IF isWeak THEN profile.weakTopics
                           ELSE Append(profile.weakTopics, currentTopic)
             pushedStrong == IF isStrong THEN profile.strongTopics
                             ELSE Append(profile.strongTopics, currentTopic)
         IN  IF type = "weak"
             THEN [profile EXCEPT
                      !.weakTopics = pushedWeak,
                      !.strongTopics = IF always \/ isStrong
                                       THEN Without(profile.strongTopics, currentTopic)
                                       ELSE profile.strongTopics]
             ELSE [profile EXCEPT
                      !.strongTopics = pushedStrong,
                      !.weakTopics = IF always \/ isWeak
                                     THEN Without(profile.weakTopics, currentTopic)
                                     ELSE profile.weakTopics]

InitTopics ==
    /\ AppInit
    /\ call = NoCall
    /\ topics \in { [NoTopics EXCEPT !.version = version] : version \in Versions }

TopicStep(next) ==
    /\ topics' = next
    /\ UNCHANGED <<appVars, audioVars, call>>

\* processResponse finds a tag (part_001:64-71, part_002:80-87)
SetCurrentTopic(topic) ==
    /\ topic # ""
    /\ TopicStep([topics EXCEPT !.currentTopic = topic, !.marked = ""])

\* resetApp (part_001:235-240); RESET_APP of part_002 leaves currentTopic alone
ResetTopic ==
    /\ topics.version = "part_001"
    /\ TopicStep([topics EXCEPT !.currentTopic = "", !.marked = ""])

\* the page is loaded again: the profile comes back from localStorage
\* (part_001:20-37, part_002:45-52), currentTopic is null
Reload ==
    /\ topics.version \in Versions
    /\ TopicStep([topics EXCEPT !.currentTopic = "", !.marked = ""])

\* 'Got it' (part_001:386, part_002:322) and SIMPLIFY (part_001:190-192,
\* part_002:161)
Mark(type) ==
    /\ topics.version \in Versions
    /\ TopicStep([updateProfileTopics(topics.version, topics, topics.currentTopic, type)
                     EXCEPT !.marked = type])

NextTopics ==
    \/ \E topic \in Topics : SetCurrentTopic(topic)
    \/ ResetTopic
    \/ Reload
    \/ \E type \in {"weak", "strong"} : Mark(type)

SpecTopics == InitTopics /\ [][NextTopics]_vars

----------------------------------------------------------------------------
(* HistoryView (part_004) *)

\* the place of entry i in filteredSessions with an empty search
\* (part_004:25-33): Array.prototype.sort by timestamp, newest first, is
\* stable, so entries with the same timestamp keep the order of the array
Place(history, i) ==
    1 + Cardinality({ j \in 1..Len(history) :
                        \/ history[j].timestamp > history[i].timestamp
                        \/ /\ history[j].timestamp = history[i].timestamp
                           /\ j < i })

\* the session the history view lists first
ListedFirst(history) ==
    history[CHOOSE i \in 1..Len(history) : Place(history, i) = 1]

----------------------------------------------------------------------------
(* Properties *)

ChatHandlers ==
    {"handleQuickStart", "handleImageSelect", "handleVideoAnalysis", "handleAction"}

Range(seq) == { seq[i] : i \in 1..Len(seq) }

ActiveSources == { n \in 1..Len(sources) : sources[n] = "started" }

BotCount(messages) ==
    Cardinality({ i \in 1..Len(messages) : messages[i].role = Bot })

MessageIds(messages) == [ i \in 1..Len(messages) |-> messages[i].id ]

\* C1: at any moment at most one audio source is playing, also when calls of
\* playAudioStream overlap.
C1_AtMostOneActiveSource == Cardinality(ActiveSources) <= 1

\* C2: when one of the four chat handlers has finished after its remote call
\* failed (missing credentials or a network error), isOfflineMode is true.
C2_FailedCallSetsOffline ==
    (lastStep.finished /\ lastStep.failed /\ lastStep.op \in ChatHandlers)
        => state.isOfflineMode

\* C3 as stated: a handler (handleSpeak included) invoked while
\* isOfflineMode is true issues no remote call.  lastStep.offline is the
\* flag as the handler saw it when it was invoked.
C3_NoRemoteCallOnceOffline == lastStep.offline => ~lastStep.remote

\* C3, amended: a chat handler (quick start, image, follow-up, video)
\* invoked while isOfflineMode is true issues no remote call.
C3_ChatHandlersShortCircuit ==
    (lastStep.offline /\ lastStep.op \in ChatHandlers) => ~lastStep.remote

\* a chat handler was invoked offline and answered from the canned texts
C3_Witness ==
    /\ lastStep.offline /\ lastStep.invoked /\ lastStep.finished
    /\ lastStep.op \in ChatHandlers
    /\ apiKey
    /\ "ADD_MESSAGE" \in Range(lastStep.types)

\* C4: a step that dispatches SET_OFFLINE_MODE appends exactly one bot
\* message, after SET_OFFLINE_MODE and before isLoading is cleared.
C4_OneFallbackOnSwitch ==
    [][ (steps' = steps + 1 /\ "SET_OFFLINE_MODE" \in Range(lastStep'.types)) =>
          LET types == lastStep'.types
              k == CHOOSE i \in 1..Len(types) : types[i] = "SET_OFFLINE_MODE"
              base == IF "RESET_APP" \in Range(types) THEN 0
                      ELSE BotCount(state.messages)
              n == Len(state'.messages)
          IN  /\ SubSeq(types, k, Len(types))
                   = << "SET_OFFLINE_MODE", "ADD_MESSAGE", "SET_LOADING" >>
              /\ BotCount(state'.messages) = base + 1
              /\ n > 0 /\ state'.messages[n].role = Bot
              /\ state'.isOfflineMode /\ ~state'.isLoading ]_vars

\* a failed call has just switched an online app to offline mode
C4_Witness ==
    /\ lastStep.failed /\ ~lastStep.offline
    /\ "SET_OFFLINE_MODE" \in Range(lastStep.types)
    /\ state.isOfflineMode

\* C5: no bot message on display contains a [[TOPIC: ...]] tag.
C5_NoTagDisplayed ==
    \A i \in 1..Len(state.messages) :
        state.messages[i].role = Bot => ~HasTopicTag(state.messages[i].text)

\* C6: no two entries of chatHistory have the same id.
C6_SessionIdsUnique ==
    \A i, j \in 1..Len(state.chatHistory) :
        state.chatHistory[i].id = state.chatHistory[j].id => i = j

\* two sessions in the history, one of them added again by a later message
C6_Witness ==
    /\ Len(state.chatHistory) >= 2
    /\ \E i \in 1..Len(state.chatHistory) : Len(state.chatHistory[i].messages) >= 2
    /\ "ADD_MESSAGE" \in Range(lastStep.types)

\* C7: a step that applies ADD_MESSAGE while currentSessionId is null grows
\* chatHistory by exactly one entry, whose id was in no entry before, and
\* leaves the entries that were there unchanged.
C7_NewSessionGrowsHistory ==
    [][ (steps' = steps + 1 /\ state.currentSessionId = NULL
           /\ "ADD_MESSAGE" \in Range(lastStep'.types)) =>
          /\ Len(state'.chatHistory) = Len(state.chatHistory) + 1
          /\ state'.currentSessionId \notin SessionIds(state.chatHistory)
          /\ \A i \in 1..Len(state.chatHistory) :
                state'.chatHistory[i] = state.chatHistory[i] ]_vars

\* C8: the messages of the conversation have pairwise distinct ids.
C8_MessageIdsUnique ==
    \A i, j \in 1..Len(state.messages) :
        state.messages[i].id = state.messages[j].id => i = j

\* C9: the title of a session that starts with a user message is derived
\* from that message, whatever happened to the history since.
C9_TitleFromFirstMessage ==
    \A i \in 1..Len(state.chatHistory) :
        LET session == state.chatHistory[i]
        IN  (session.messages # <<>> /\ session.messages[1].role = User)
                => session.title = SessionTitle(session.messages)

\* C10: when currentSessionId is not null, chatHistory has an entry with that
\* id whose messages are the messages on display.
C10_CurrentSessionInHistory ==
    state.currentSessionId # NULL =>
        \E i \in 1..Len(state.chatHistory) :
            /\ state.chatHistory[i].id = state.currentSessionId
            /\ MessageIds(state.chatHistory[i].messages) = MessageIds(state.messages)

\* C11: once the persistence effects have run, what loadInitialState reads
\* back from localStorage at the next start is the profile and the history
\* of the state.
C11_StorageMatchesState ==
    loadInitialState(localStorage)
        = [profile |-> state.userProfile, history |-> state.chatHistory]

\* C12: when a remote call started by a chat handler completes or fails, the
\* step appends its bot message at the end of the messages then on display
\* and to the session then current (a new one when there is none), whatever
\* was dispatched while the call was in flight.
C12_RepliesAlwaysAppended ==
    [][ \A h \in inflight \ inflight' :
          (h.fate = "remote" /\ h.kind # "speak") =>
              LET n == Len(state'.messages)
              IN  /\ n = Len(state.messages) + 1
                  /\ SubSeq(state'.messages, 1, n - 1) = state.messages
                  /\ state'.messages[n].role = Bot
                  /\ state.currentSessionId # NULL
                        => state'.currentSessionId = state.currentSessionId
                  /\ \E i \in 1..Len(state'.chatHistory) :
                        /\ state'.chatHistory[i].id = state'.currentSessionId
                        /\ state'.chatHistory[i].messages = state'.messages ]_vars

\* a reply has arrived after New Chat emptied the conversation it was for
C12_Witness ==
    /\ lastStep.finished /\ ~lastStep.invoked /\ ~lastStep.failed
    /\ lastStep.op \in ChatHandlers
    /\ Len(state.messages) = 1 /\ state.messages[1].role = Bot
    /\ apiKey

\* C13: a follow-up is sent to the chat created by the most recent call that
\* reached chats.create (chats number them in order of creation), and fails
\* without a request when none was created; steps that only dispatch
\* (LOAD_SESSION, RESET_APP among them) and settled calls leave the handle
\* as it is.
C13_FollowUpToLatestChat ==
    [][ /\ \A h \in inflight' \ inflight :
              h.kind = "action" =>
                  IF chats = 0 THEN h.fate = "nochat"
                  ELSE h.fate = "remote" /\ h.chat = chats
        /\ (steps' = steps + 1 /\ chats' = chats) => chatSession' = chatSession
      ]_vars

\* a follow-up is in flight to the chat of another conversation while the
\* UI shows the session loaded from the history
C13_Witness ==
    /\ state.currentSessionId = StoredAt
    /\ \E h \in inflight : h.kind = "action" /\ h.fate = "remote" /\ h.chat = chats

IsPrefix(p, q) == Len(p) <= Len(q) /\ SubSeq(q, 1, Len(p)) = p

SessionChanging == {"RESET_APP", "LOAD_SESSION", "DELETE_SESSION"}

\* C14: a step that keeps the same non-null currentSessionId and dispatches
\* no RESET_APP, LOAD_SESSION or DELETE_SESSION leaves the earlier sequence
\* of message ids a prefix of the later one.
C14_MessagesAppendOnly ==
    [][ (/\ steps' = steps + 1
         /\ state.currentSessionId # NULL
         /\ state'.currentSessionId = state.currentSessionId
         /\ Range(lastStep'.types) \cap SessionChanging = {})
            => IsPrefix(MessageIds(state.messages), MessageIds(state'.messages))
      ]_vars

\* the audio flag of a bubble was toggled in a conversation of two messages
\* or more
C14_Witness ==
    /\ lastStep.op = "handleSpeak" /\ lastStep.invoked
    /\ state.currentSessionId # NULL
    /\ Len(state.messages) >= 2
    /\ \E i \in 1..Len(state.messages) : state.messages[i].isAudioPlaying

Others(history, id) == SelectSeq(history, LAMBDA session : session.id # id)

\* C15: a step that dispatches DELETE_SESSION(id) keeps exactly the history
\* entries with another id, in order; when id is the current session the
\* messages are emptied, currentSessionId is null and the mode is UPLOAD,
\* otherwise messages, currentSessionId and currentMode are unchanged.
C15_DeleteSessionFrame ==
    [][ (steps' = steps + 1 /\ lastStep'.types = << "DELETE_SESSION" >>) =>
          LET id == lastStep'.deleted
          IN  /\ state'.chatHistory = Others(state.chatHistory, id)
              /\ IF id = state.currentSessionId
                 THEN /\ state'.messages = <<>>
                      /\ state'.currentSessionId = NULL
                      /\ state'.currentMode = UPLOAD
                 ELSE /\ state'.messages = state.messages
                      /\ state'.currentSessionId = state.currentSessionId
                      /\ state'.currentMode = state.currentMode ]_vars

\* the current session was deleted from a history that held another one
C15_Witness ==
    /\ lastStep.types = << "DELETE_SESSION" >>
    /\ state.currentSessionId = NULL /\ state.messages = <<>>
    /\ state.currentMode = UPLOAD
    /\ Len(state.chatHistory) >= 1

Count(seq, x) == Cardinality({ i \in 1..Len(seq) : seq[i] = x })

\* a step that only adds messages to a current session that the history holds
AddsToKnownSession ==
    /\ steps' = steps + 1
    /\ "ADD_MESSAGE" \in Range(lastStep'.types)
    /\ Range(lastStep'.types) \cap (SessionChanging \cup {"CLEAR_HISTORY"}) = {}
    /\ state.currentSessionId \in SessionIds(state.chatHistory)

\* the history entry with this id
Entry(history, id) == history[CHOOSE i \in 1..Len(history) : history[i].id = id]

\* what C16 and its amendment share: the number of entries is unchanged, the
\* entry keeps its id and title, its messages are the previous ones plus the
\* new ones, and no other entry has a greater timestamp
ReAdded ==
    LET id == state.currentSessionId
        old == Entry(state.chatHistory, id)
        new == Entry(state'.chatHistory, id)
    IN  /\ Len(state'.chatHistory) = Len(state.chatHistory)
        /\ id \in SessionIds(state'.chatHistory)
        /\ new.title = old.title
        /\ IsPrefix(MessageIds(old.messages), MessageIds(new.messages))
        /\ Len(new.messages)
             = Len(old.messages) + Count(lastStep'.types, "ADD_MESSAGE")
        /\ \A j \in 1..Len(state'.chatHistory) :
               new.timestamp >= state'.chatHistory[j].timestamp

C17_OfflineActionCannedText ==
    \A action \in MockKeys :
        LET n == Len(state.messages)
        IN  (/\ lastStep.op = "handleAction" /\ lastStep.finished
             /\ "SET_OFFLINE_MODE" \in Range(lastStep.types)
             /\ n >= 2
             /\ state.messages[n - 1].role = User
             /\ state.messages[n - 1].text = DisplayUserText(action))
                => state.messages[n].text = mocks(action)

IsString(value) == value \notin { Inherited(key) : key \in ObjectPrototypeKeys }

C18_Expected(input, action) ==
    LET lower == ToLowerCase(input)
    IN  CASE Includes(lower, "photosynthesis") -> MockPhotosynthesis
          [] ~Includes(lower, "photosynthesis") /\ Includes(lower, "balance sheet") ->
               MockBalanceSheet
          [] ~Includes(lower, "photosynthesis") /\ ~Includes(lower, "balance sheet")
             /\ (Includes(lower, "newton") \/ Includes(lower, "law")) -> MockNewton
          [] OTHER ->
               IF Includes(lower, "youtube.com") \/ Includes(lower, "youtu.be")
               THEN MockYouTube
               ELSE IF action \in MockKeys THEN mocks(action)
               ELSE "~~ **Offline Mode Active:**\n\nMaine tumhara question padha: _\""
                        \o (IF input = "" THEN "Question"
                            ELSE SubSeq(input, 1, Min({Len(input), GenericEchoLen})))
                        \o "...\"_\n\n(Please check your API Key/Internet for full AI power!)"

\* C18: for every input text and optional action getMockResponse returns a
\* non-empty string chosen in a fixed priority: 'photosynthesis', then
\* 'balance sheet', then 'newton' or 'law', then a YouTube link, then the
\* action's canned text when the action has a table entry, otherwise the
\* generic fallback echoing at most the first 50 characters of the input.
C18_MockTotalWithPriority ==
    (call.fn = "getMockResponse" /\ call.done) =>
        /\ IsString(call.result.text)
        /\ call.result.text # ""
        /\ call.result.text = C18_Expected(call.input, call.option)

\* C19: generateProgressReport always resolves to an object that has both a
\* commonMistakes list and a learningTips list, whatever the remote call
\* does: missing key, network error, empty text, text without a JSON object,
\* JSON lacking those fields.
C19_ReportHasBothLists ==
    (call.fn = "generateProgressReport" /\ call.done) =>
        {"commonMistakes", "learningTips"} \subseteq call.result.lists

HasTag(text) == TagSpanFrom(text, 1).at # 0

\* C20: the text generateSpeech sends to the text-to-speech model has at
\* most 800 characters and contains no '###', no '**', no backtick and no
\* '[[TOPIC:...]]' tag, for every input text.
C20_SpeechTextCleanAndBounded ==
    (call.fn = "generateSpeech" /\ call.done /\ call.result.sent) =>
        /\ Len(call.result.text) <= SpeechLimit
        /\ ~Includes(call.result.text, "###")
        /\ ~Includes(call.result.text, "**")
        /\ ~Includes(call.result.text, "^")
        /\ ~HasTag(call.result.text)

C20_Bounded ==
    (call.fn = "generateSpeech" /\ call.done /\ call.result.sent) =>
        /\ Len(call.result.text) <= SpeechLimit
        /\ ~Includes(call.result.text, "^")

\* the last message is a user bubble with this text
LastIsUser(messages, text) ==
    /\ messages # <<>>
    /\ messages[Len(messages)].role = User
    /\ messages[Len(messages)].text = text

\* the user bubbles only handleAction writes
FollowUpTexts == { DisplayUserText(action) : action \in FollowUps }

\* two adjacent user bubbles with the same text, written by follow-ups
DoubleBubble(messages) ==
    \E i \in 1..(Len(messages) - 1) :
        /\ messages[i].role = User
        /\ messages[i + 1].role = User
        /\ messages[i].text = messages[i + 1].text
        /\ messages[i].text \in FollowUpTexts

HandleActionInvoked == lastStep'.op = "handleAction" /\ lastStep'.invoked

\* the first dispatches of an invocation of handleAction added a user bubble
UserBubbleAdded ==
    /\ Len(lastStep'.types) >= 2
    /\ lastStep'.types[2] = "ADD_MESSAGE"
    /\ Len(state'.messages) > Len(state.messages)
    /\ state'.messages[Len(state.messages) + 1].role = User

\* C21: an invocation of handleAction appends a user bubble for the request
\* unless the last message is already a user message with the identical
\* text, and the message list never holds two adjacent user messages with the
\* same text.
C21_NoDoubleBubble ==
    [][ /\ HandleActionInvoked =>
            \E action \in FollowUps :
                /\ UserBubbleAdded <=> ~LastIsUser(state.messages, DisplayUserText(action))
                /\ UserBubbleAdded =>
                      state'.messages[Len(state.messages) + 1].text = DisplayUserText(action)
                /\ ~UserBubbleAdded =>
                      LastIsUser(state.messages, DisplayUserText(action))
        /\ ~DoubleBubble(state'.messages) ]_vars

\* a follow-up was sent again while its user bubble was still the last message
C21_Witness ==
    /\ lastStep.op = "handleAction" /\ lastStep.invoked
    /\ lastStep.types = <<"SET_LOADING">>
    /\ \E action \in FollowUps : LastIsUser(state.messages, DisplayUserText(action))

\* the requests of the four chat handlers that are still in flight, a file
\* being read included
LoadingRequests == { h \in inflight : h.kind \in {"quick", "image", "video", "action"} }

\* C22: every handler invocation that set isLoading to true sets it back to
\* false, whether the remote call succeeds, fails or the image file cannot be
\* read: once no request is in flight isLoading is false.
C22_LoadingEndsWithRequests ==
    LoadingRequests = {} => ~state.isLoading

\* C23: isLoading is true in every state in which at least one request
\* started by handleQuickStart, handleImageSelect, handleVideoAnalysis or
\* handleAction is still in flight, also when several requests overlap and
\* one of them finishes first.
C23_LoadingWhileInFlight ==
    LoadingRequests # {} => state.isLoading

\* C24: RESET_APP changes only messages (to empty), currentSessionId (to
\* null) and currentMode (to UPLOAD); chatHistory, userProfile,
\* isOfflineMode, youtubeLink, isLoading, isListening and every other field
\* are left unchanged.
C24_ResetAppFrame ==
    (call.fn = "appReducer" /\ call.done /\ call.option.type = "RESET_APP") =>
        /\ call.result.messages = <<>>
        /\ call.result.currentSessionId = NULL
        /\ call.result.currentMode = UPLOAD
        /\ DOMAIN call.result = DOMAIN call.input
        /\ \A field \in DOMAIN call.input \ {"messages", "currentSessionId", "currentMode"} :
              call.result[field] = call.input[field]

\* RESET_APP was dispatched in the middle of a conversation, while loading
\* and listening
C24_Witness ==
    /\ call.fn = "appReducer" /\ call.done /\ call.option.type = "RESET_APP"
    /\ call.input.messages # <<>> /\ call.input.currentSessionId # NULL
    /\ call.input.currentMode = CHAT /\ call.input.chatHistory # <<>>
    /\ call.input.isLoading /\ call.input.isListening /\ call.input.isOfflineMode
    /\ call.input.youtubeLink # ""
    /\ call.result.messages = <<>>

\* C25: offline mode is sticky: once isOfflineMode has become true it is
\* true in every later state of the page session, whatever handlers run and
\* whatever the reducer is given, a later successful call included.
C25_OfflineSticky ==
    [][state.isOfflineMode => state'.isOfflineMode]_vars

\* a remote call has succeeded while the app was already in offline mode
C25_Witness ==
    /\ state.isOfflineMode
    /\ lastStep.op \in ChatHandlers /\ lastStep.finished /\ ~lastStep.invoked
    /\ ~lastStep.failed
    /\ "SET_OFFLINE_MODE" \notin Range(lastStep.types)
    /\ "ADD_MESSAGE" \in Range(lastStep.types)

\* C26: isOfflineMode becomes true only after a remote call has failed for
\* missing credentials or a network or API error; a follow-up sent in a
\* session loaded from history while credentials and network are fine does
\* not switch the app to offline mode.
C26_OfflineOnlyAfterFailure ==
    [][(~state.isOfflineMode /\ state'.isOfflineMode) => lastStep'.failed]_vars

\* with a key and no failed call, a follow-up in the session loaded from the
\* history has switched the app to offline mode
C26_LoadedSessionWentOffline ==
    /\ apiKey /\ state.isOfflineMode
    /\ state.currentSessionId = StoredAt /\ chats = 0
    /\ lastStep.op = "handleAction" /\ lastStep.finished /\ ~lastStep.failed
    /\ "SET_OFFLINE_MODE" \in Range(lastStep.types)

\* the step is the continuation of handleQuickStart or of the image upload
\* after its remote call has answered
FirstAnswerArrives ==
    /\ lastStep'.op \in {"handleQuickStart", "handleImageSelect"}
    /\ ~lastStep'.invoked /\ lastStep'.finished /\ ~lastStep'.failed
    /\ "SET_OFFLINE_MODE" \notin Range(lastStep'.types)
    /\ "ADD_MESSAGE" \in Range(lastStep'.types)

\* C27: each successful first answer of a quick-start or image-upload
\* session increases userProfile.totalSessions by exactly one, also when two
\* of these requests overlap in time.
C27_EachSuccessCounts ==
    [][FirstAnswerArrives =>
          state'.userProfile.totalSessions = state.userProfile.totalSessions + 1]_vars

\* the step is a handler's continuation after an answer with a topic tag
TaggedAnswerArrives ==
    /\ lastStep'.op \in ChatHandlers
    /\ ~lastStep'.invoked /\ lastStep'.finished /\ ~lastStep'.failed

\* C28: userProfile.streakDays never decreases and grows by at most one per
\* calendar-day change: it is raised by one only when a tagged response
\* arrives on a date different from lastStudyDate, for any interleaving of
\* responses whose handlers captured an older profile.
C28_StreakMonotone ==
    [][ /\ state'.userProfile.streakDays >= state.userProfile.streakDays
        /\ state'.userProfile.streakDays > state.userProfile.streakDays =>
              /\ state'.userProfile.streakDays = state.userProfile.streakDays + 1
              /\ TaggedAnswerArrives
              /\ DayOf(now) # state.userProfile.lastStudyDate ]_vars

\* the first part of C28 on its own: streakDays never decreases
C28_StreakNeverDecreases ==
    [][state'.userProfile.streakDays >= state.userProfile.streakDays]_vars

\* the messages of the current list and of every session of the history
AllMessages ==
    Range(state.messages)
        \cup UNION { Range(state.chatHistory[i].messages) : i \in 1..Len(state.chatHistory) }

\* C29: a message carries isAudioPlaying = true only while a speak request
\* for it is in flight: every message of the current list and of every
\* chatHistory entry that has the flag set has an invocation of handleSpeak
\* for its id that has not yet reached its finally block.
C29_PlayingOnlyWhileSpeaking ==
    \A m \in AllMessages :
        m.isAudioPlaying => \E h \in inflight : h.kind = "speak" /\ h.arg = m.id

NoDuplicate(list) == \A i, j \in 1..Len(list) : list[i] = list[j] => i = j

Occurrences(list, x) == Cardinality({ i \in 1..Len(list) : list[i] = x })

\* the topics of a list other than x, in their order
Rest(list, x) == SelectSeq(list, LAMBDA t : t # x)

\* C30: after any sequence of 'Got it' (strong) and SIMPLIFY (weak) markings
\* the weak and strong topic lists are disjoint and neither holds a
\* duplicate: marking the current topic weak adds it to weakTopics once and
\* removes it from strongTopics, marking it strong does the reverse, and
\* marking with no current topic changes nothing.
C30_TopicListsDisjoint ==
    [][ LET topic == topics.currentTopic
            weak == topics'.weakTopics
            strong == topics'.strongTopics
        IN  /\ Range(weak) \cap Range(strong) = {}
            /\ NoDuplicate(weak) /\ NoDuplicate(strong)
            /\ (topics'.marked # "" /\ topic = "") =>
                  weak = topics.weakTopics /\ strong = topics.strongTopics
            /\ (topics'.marked = "weak" /\ topic # "") =>
                  /\ Occurrences(weak, topic) = 1 /\ Occurrences(strong, topic) = 0
                  /\ Rest(weak, topic) = Rest(topics.weakTopics, topic)
                  /\ strong = Rest(topics.strongTopics, topic)
            /\ (topics'.marked = "strong" /\ topic # "") =>
                  /\ Occurrences(strong, topic) = 1 /\ Occurrences(weak, topic) = 0
                  /\ Rest(strong, topic) = Rest(topics.strongTopics, topic)
                  /\ weak = Rest(topics.weakTopics, topic) ]_vars

\* a topic marked strong earlier has just been marked weak, next to others
C30_Witness ==
    /\ topics.marked = "weak" /\ topics.currentTopic # ""
    /\ Includes1(topics.weakTopics, topics.currentTopic)
    /\ Len(topics.weakTopics) >= 2 /\ Len(topics.strongTopics) >= 1

====
